---- MODULE Spec2Model ----
(* A model of src/bot.py: a Telegram bot that relays text messages to the   *)
(* Gemini completion API.  The module follows the script top to bottom:     *)
(* module-level setup, the three handler coroutines, and the __main__ block *)
(* that checks the configuration, registers the handlers and polls.         *)
(*                                                                          *)
(* Values.  A Python value that may be None is a sequence of length <= 1    *)
(* (<<>> is None, <<v>> is v).  A string is a sequence of tokens, so "" is  *)
(* <<>> and "/start" is <<"/", "start">>.                                   *)
EXTENDS Integers, Sequences, FiniteSets, TLC

\* ---------------------------------------------------------------- bounds
\* Number of updates the chat platform delivers in one run.
MaxUpdates == 2

\* ---------------------------------------------------------------- inputs
NoneVal == <<>>
Some(v) == <<v>>

\* os.getenv(...) results: None, "" and a non-empty secret.
EnvValues == {NoneVal, Some(<<>>), Some(<<"secret">>)}

\* message.text of the inbound events: absent (photo without caption), "",
\* free text, and texts that start with a bot command.
EventTexts ==
    { NoneVal, Some(<<>>), Some(<<"hi">>), Some(<<"start">>),
      Some(<<"/", "start">>), Some(<<"/", "help">>), Some(<<"/", "foo">>) }

\* effective_user.first_name / effective_chat.id
Users == { [first_name |-> "Ada", chat_id |-> 1], [first_name |-> "Bob", chat_id |-> 2] }

Events == { [text |-> t, first_name |-> u.first_name, chat_id |-> u.chat_id] :
              t \in EventTexts, u \in Users }

\* What the provider call can produce: generate_content returns a response
\* whose .text is a string (possibly ""), generate_content raises, or
\* response.text raises because the response carries no text part.
ProviderResults ==
    { [kind |-> "text", text |-> <<"Paris", " is the capital of France.">>, cause |-> "none"],
      [kind |-> "text", text |-> <<>>, cause |-> "none"],
      [kind |-> "raise", text |-> <<>>, cause |-> "timeout"],
      [kind |-> "no_text", text |-> <<>>, cause |-> "blocked"] }

\* ------------------------------------------------------------- variables
VARIABLES
    TELEGRAM_BOT_TOKEN, \* line 16
    GOOGLE_API_KEY,     \* line 17
    phase,              \* position of the script
    exit_code,          \* <<>> while running, <<1>> after exit(1)
    stdout,             \* print() output
    model_defined,      \* whether the global `model` was bound (line 33)
    handlers,           \* application.add_handler order
    contacted,          \* external services a request was sent to
    updates,            \* every update received so far, in arrival order
    handler_of,         \* per update: the handler that took it ("pending" before)
    update_queue,       \* indices of updates fetched but not yet processed
    current,            \* index of the update being processed, 0 if none
    pc,                 \* per update: position of its handler coroutine
    trace,              \* per update: outbound calls made while handling it
    response,           \* per update: result of the provider call, if any
    log                 \* logging.error records

vars == << TELEGRAM_BOT_TOKEN, GOOGLE_API_KEY, phase, exit_code, stdout,
           model_defined, handlers, contacted, updates, handler_of, update_queue,
           current, pc, trace, response, log >>

envVars == << TELEGRAM_BOT_TOKEN, GOOGLE_API_KEY >>
mainVars == << phase, exit_code, stdout, model_defined, handlers >>

\* ----------------------------------------------------------- pure helpers
\* Truthiness that only rejects None.
TruthyNotNone(v) == Len(v) = 1

\* Python truthiness of an optional string: None and "" are falsy.
Truthy(v) == Len(v) = 1 /\ v[1] # <<>>

\* filters.COMMAND: the text starts with a bot command ("/" and a name).
IsCommand(text) == Truthy(text) /\ Len(text[1]) >= 2 /\ text[1][1] = "/"

CommandName(text) == text[1][2]

\* filters.TEXT alone.
MessageFilterTextOnly(text) == Truthy(text)

\* filters.TEXT & (~filters.COMMAND)
MessageFilter(text) == Truthy(text) /\ ~IsCommand(text)

\* check_update of each registered handler.
Matches(h, ev) ==
    CASE h = "start"   -> IsCommand(ev.text) /\ CommandName(ev.text) = "start"
      [] h = "help"    -> IsCommand(ev.text) /\ CommandName(ev.text) = "help"
      [] h = "message" -> MessageFilter(ev.text)
      [] OTHER         -> FALSE

\* The first registered handler that accepts the update, "none" if none does.
RECURSIVE FirstMatch(_, _)
FirstMatch(hs, ev) ==
    IF hs = <<>> THEN "none"
    ELSE IF Matches(Head(hs), ev) THEN Head(hs)
    ELSE FirstMatch(Tail(hs), ev)

\* A greeting without the name.
WelcomeNoName(user_first_name) ==
    <<"Hello ", "! ", "I am a bot powered by Google's Gemini AI.">>

\* Reply bodies.
WelcomeMessage(user_first_name) ==
    <<"Hello ", user_first_name, "! ", "I am a bot powered by Google's Gemini AI.">>

HelpMessage == <<"Just send me a text message and I will reply using Gemini AI!">>

\* An apology that forwards the exception text.
ApologyWithCause(e) ==
    <<"Sorry, I encountered an error while processing your request. Please try again later.", e>>

ApologyMessage(e) ==
    <<"Sorry, I encountered an error while processing your request. Please try again later.">>

\* A prompt that carries context over from the updates handled before.
PromptWithMemory(user_text) ==
    IF current > 1 THEN <<"context">> \o user_text ELSE user_text

\* The prompt handed to model.generate_content and the body handed to
\* reply_text on success.
Prompt(user_text) == user_text

\* A reply cut to its first token.
ReplyTruncated(bot_response) == SubSeq(bot_response, 1, 1)

ReplyBody(bot_response) == bot_response

\* Outcome of a sendMessage request: the platform rejects an empty text.
SendResults(body) == IF body = <<>> THEN {"raise"} ELSE {"ok", "raise"}

SendCall(ev, body, r) ==
    [op |-> "reply_text", chat_id |-> ev.chat_id, body |-> body, result |-> r]

\* A message handler that goes to the provider without the typing indicator.
HandlerEntryNoTyping(h, ev) ==
    CASE h = "start"   -> "start_reply"
      [] h = "help"    -> "help_reply"
      [] h = "message" -> IF ~Truthy(ev.text) THEN "returned" ELSE "generate_content"
      [] OTHER         -> "unhandled"

\* Position of a handler coroutine at its first await.
HandlerEntry(h, ev) ==
    CASE h = "start"   -> "start_reply"
      [] h = "help"    -> "help_reply"
      [] h = "message" -> IF ~Truthy(ev.text) THEN "returned" ELSE "send_chat_action"
      [] OTHER         -> "unhandled"

Final == {"returned", "raised", "unhandled"}

\* An application that stops polling when a handler raises.
AfterHandlerCrash(outcome) ==
    IF outcome = "raised" THEN [phase |-> "crashed", current |-> 0]
    ELSE [phase |-> "polling", current |-> 0]

\* An application that never releases the update it has processed.
AfterHandlerStuck(outcome) == [phase |-> "polling", current |-> current]

\* What the application does when a handler coroutine ends: an exception
\* that leaves the handler is logged and polling goes on.
AfterHandler(outcome) == [phase |-> "polling", current |-> 0]

\* ------------------------------------------------------------------ Init
Init ==
    /\ TELEGRAM_BOT_TOKEN \in EnvValues
    /\ GOOGLE_API_KEY \in EnvValues
    /\ phase = "module_setup"
    /\ exit_code = <<>>
    /\ stdout = <<>>
    /\ model_defined = FALSE
    /\ handlers = <<>>
    /\ contacted = {}
    /\ updates = <<>>
    /\ handler_of = <<>>
    /\ update_queue = <<>>
    /\ current = 0
    /\ pc = <<>>
    /\ trace = <<>>
    /\ response = <<>>
    /\ log = <<>>

runVars == << contacted, updates, handler_of, update_queue, current, pc, trace, response >>

\* ------------------------------------------------------- startup actions
\* Lines 30-35: genai.configure and GenerativeModel inside try/except.
GeminiSetup ==
    /\ phase = "module_setup"
    /\ \E ok \in BOOLEAN :
         /\ model_defined' = ok
         /\ log' = IF ok THEN log
                   ELSE Append(log, [msg |-> "Failed to configure Gemini AI", cause |-> "setup"])
    /\ phase' = "check_token"
    /\ UNCHANGED << envVars, exit_code, stdout, handlers, runVars >>

\* A check that only rejects None.
ConfigMissingNoneOnly(v) == v = <<>>

\* `if not <value>:` of lines 103 and 107.
ConfigMissing(v) == ~Truthy(v)

\* Lines 103-105.
CheckToken ==
    /\ phase = "check_token"
    /\ IF ConfigMissing(TELEGRAM_BOT_TOKEN)
       THEN /\ stdout' = Append(stdout, "Error: TELEGRAM_BOT_TOKEN not found. Please check your .env file.")
            /\ exit_code' = <<1>>
            /\ phase' = "exited"
       ELSE /\ phase' = "check_key"
            /\ UNCHANGED << stdout, exit_code >>
    /\ UNCHANGED << envVars, model_defined, handlers, runVars, log >>

\* Lines 107-109.
CheckKey ==
    /\ phase = "check_key"
    /\ IF ConfigMissing(GOOGLE_API_KEY)
       THEN /\ stdout' = Append(stdout, "Error: GOOGLE_API_KEY not found. Please check your .env file.")
            /\ exit_code' = <<1>>
            /\ phase' = "exited"
       ELSE /\ phase' = "build"
            /\ UNCHANGED << stdout, exit_code >>
    /\ UNCHANGED << envVars, model_defined, handlers, runVars, log >>

\* Lines 111-125: build the application and register the handlers.
Build ==
    /\ phase = "build"
    /\ stdout' = Append(stdout, "Starting bot...")
    /\ handlers' = <<"start", "help", "message">>
    /\ phase' = "run_polling"
    /\ UNCHANGED << envVars, exit_code, model_defined, runVars, log >>

\* Line 129: run_polling initialises the bot and starts the long poll.
RunPolling ==
    /\ phase = "run_polling"
    /\ phase' = "polling"
    /\ contacted' = contacted \cup {"telegram"}
    /\ UNCHANGED << envVars, exit_code, stdout, model_defined, handlers,
                    updates, handler_of, update_queue, current, pc, trace, response, log >>

\* ------------------------------------------------------- update handling
\* The poller receives an update and puts it on the update queue.
Arrive(ev) ==
    /\ phase = "polling"
    /\ Len(updates) < MaxUpdates
    /\ updates' = Append(updates, ev)
    /\ handler_of' = Append(handler_of, "pending")
    /\ update_queue' = Append(update_queue, Len(updates) + 1)
    /\ pc' = Append(pc, "queued")
    /\ trace' = Append(trace, <<>>)
    /\ response' = Append(response, <<>>)
    /\ UNCHANGED << envVars, mainVars, contacted, current, log >>

\* The application built at line 114 (no concurrent_updates) takes the next
\* update off the queue only when no handler is running, and starts the
\* first registered handler that accepts it; the coroutine runs up to its
\* first await.
ProcessUpdate ==
    /\ phase = "polling"
    /\ current = 0
    /\ update_queue # <<>>
    /\ LET i  == Head(update_queue)
           ev == updates[i]
           h  == FirstMatch(handlers, ev)
           at == HandlerEntry(h, ev)
       IN /\ pc' = [pc EXCEPT ![i] = at]
          /\ handler_of' = [handler_of EXCEPT ![i] = h]
          /\ current' = IF at \in Final THEN AfterHandler(at).current ELSE i
          /\ phase' = IF at \in Final THEN AfterHandler(at).phase ELSE phase
    /\ update_queue' = Tail(update_queue)
    /\ UNCHANGED << envVars, exit_code, stdout, model_defined, handlers,
                    contacted, updates, trace, response, log >>

\* End of a handler coroutine: normally, or by an exception that leaves it.
Finish(i, outcome) ==
    /\ pc' = [pc EXCEPT ![i] = outcome]
    /\ current' = AfterHandler(outcome).current
    /\ phase' = AfterHandler(outcome).phase

Unhandled(cause) == [msg |-> "No error handlers are registered, logging exception.", cause |-> cause]

\* Line 52: await update.message.reply_text(welcome_message)
StartReply ==
    /\ phase = "polling" /\ current # 0 /\ pc[current] = "start_reply"
    /\ LET ev   == updates[current]
           body == WelcomeMessage(ev.first_name)
       IN \E r \in SendResults(body) :
            /\ trace' = [trace EXCEPT ![current] = Append(@, SendCall(ev, body, r))]
            /\ Finish(current, IF r = "ok" THEN "returned" ELSE "raised")
            /\ log' = IF r = "ok" THEN log ELSE Append(log, Unhandled("send"))
    /\ contacted' = contacted \cup {"telegram"}
    /\ UNCHANGED << envVars, exit_code, stdout, model_defined, handlers,
                    updates, handler_of, update_queue, response >>

\* Lines 58-61.
HelpReply ==
    /\ phase = "polling" /\ current # 0 /\ pc[current] = "help_reply"
    /\ LET ev   == updates[current]
           body == HelpMessage
       IN \E r \in SendResults(body) :
            /\ trace' = [trace EXCEPT ![current] = Append(@, SendCall(ev, body, r))]
            /\ Finish(current, IF r = "ok" THEN "returned" ELSE "raised")
            /\ log' = IF r = "ok" THEN log ELSE Append(log, Unhandled("send"))
    /\ contacted' = contacted \cup {"telegram"}
    /\ UNCHANGED << envVars, exit_code, stdout, model_defined, handlers,
                    updates, handler_of, update_queue, response >>

\* Line 74: await context.bot.send_chat_action(...), outside the try block.
SendChatAction ==
    /\ phase = "polling" /\ current # 0 /\ pc[current] = "send_chat_action"
    /\ LET ev == updates[current]
       IN \E r \in {"ok", "raise"} :
            /\ trace' = [trace EXCEPT ![current] =
                           Append(@, [op |-> "send_chat_action", chat_id |-> ev.chat_id,
                                      action |-> "typing", result |-> r])]
            /\ IF r = "ok"
               THEN /\ pc' = [pc EXCEPT ![current] = "generate_content"]
                    /\ UNCHANGED << current, phase, log >>
               ELSE /\ Finish(current, "raised")
                    /\ log' = Append(log, Unhandled("chat_action"))
    /\ contacted' = contacted \cup {"telegram"}
    /\ UNCHANGED << envVars, exit_code, stdout, model_defined, handlers,
                    updates, handler_of, update_queue, response >>

ErrorGenerating(cause) == [msg |-> "Error generating response", cause |-> cause]

\* Line 80, the call: asyncio.to_thread(model.generate_content, user_text).
\* Evaluating `model` raises NameError when line 33 never bound it.
GenerateContent ==
    /\ phase = "polling" /\ current # 0 /\ pc[current] = "generate_content"
    /\ LET ev == updates[current]
       IN IF model_defined
          THEN /\ trace' = [trace EXCEPT ![current] =
                              Append(@, [op |-> "generate_content", prompt |-> Prompt(ev.text[1])])]
               /\ contacted' = contacted \cup {"gemini"}
               /\ pc' = [pc EXCEPT ![current] = "await_generate"]
               /\ log' = log
          ELSE /\ pc' = [pc EXCEPT ![current] = "except_reply"]
               /\ log' = Append(log, ErrorGenerating("NameError"))
               /\ UNCHANGED << trace, contacted >>
    /\ UNCHANGED << envVars, mainVars, updates, handler_of, update_queue, current, response >>

\* A handler that calls the provider again after a failed call.
AfterGenerateRetry(res) ==
    IF res.kind = "text" THEN "reply_text" ELSE "generate_content"

\* Where the handler goes once the provider call is over: on to line 91, or
\* into the except branch; the call is not repeated.
AfterGenerate(res) ==
    IF res.kind = "text" THEN "reply_text" ELSE "except_reply"

\* Lines 80-82: the worker thread finishes and response.text is read.
GenerateReturn ==
    /\ phase = "polling" /\ current # 0 /\ pc[current] = "await_generate"
    /\ \E res \in ProviderResults :
         /\ response' = [response EXCEPT ![current] = <<res>>]
         /\ pc' = [pc EXCEPT ![current] = AfterGenerate(res)]
         /\ log' = IF res.kind = "text" THEN log
                   ELSE Append(log, ErrorGenerating(res.cause))
    /\ UNCHANGED << envVars, mainVars, contacted, updates, handler_of, update_queue, current, trace >>

\* A handler that runs the apology send after every reply.
AfterReplyTextAlways(r) == "except_reply"

\* Where the handler goes after the send of line 91: it returns, or the
\* exception of the send is caught by the except of line 93.
AfterReplyText(r) == IF r = "ok" THEN "returned" ELSE "except_reply"

\* Line 91: await update.message.reply_text(bot_response), inside the try.
ReplyText ==
    /\ phase = "polling" /\ current # 0 /\ pc[current] = "reply_text"
    /\ LET ev   == updates[current]
           body == ReplyBody(response[current][1].text)
       IN \E r \in SendResults(body) :
            /\ trace' = [trace EXCEPT ![current] = Append(@, SendCall(ev, body, r))]
            /\ IF AfterReplyText(r) \in Final
               THEN /\ Finish(current, AfterReplyText(r))
                    /\ log' = log
               ELSE /\ pc' = [pc EXCEPT ![current] = AfterReplyText(r)]
                    /\ log' = Append(log, ErrorGenerating("send"))
                    /\ UNCHANGED << current, phase >>
    /\ contacted' = contacted \cup {"telegram"}
    /\ UNCHANGED << envVars, exit_code, stdout, model_defined, handlers,
                    updates, handler_of, update_queue, response >>

\* Lines 93-97: the except branch sends the apology; an exception raised
\* here leaves the handler.
ExceptReply ==
    /\ phase = "polling" /\ current # 0 /\ pc[current] = "except_reply"
    /\ LET ev   == updates[current]
           body == ApologyMessage(log[Len(log)].cause)
       IN \E r \in SendResults(body) :
            /\ trace' = [trace EXCEPT ![current] = Append(@, SendCall(ev, body, r))]
            /\ Finish(current, IF r = "ok" THEN "returned" ELSE "raised")
            /\ log' = IF r = "ok" THEN log ELSE Append(log, Unhandled("send"))
    /\ contacted' = contacted \cup {"telegram"}
    /\ UNCHANGED << envVars, exit_code, stdout, model_defined, handlers,
                    updates, handler_of, update_queue, response >>

Next ==
    \/ GeminiSetup
    \/ CheckToken
    \/ CheckKey
    \/ Build
    \/ RunPolling
    \/ \E ev \in Events : Arrive(ev)
    \/ ProcessUpdate
    \/ StartReply
    \/ HelpReply
    \/ SendChatAction
    \/ GenerateContent
    \/ GenerateReturn
    \/ ReplyText
    \/ ExceptReply

Spec == Init /\ [][Next]_vars

\* A step of the application or of the handler it is running.  At most one
\* of these is enabled at a time: updates are processed one by one.
Progress ==
    \/ ProcessUpdate
    \/ StartReply
    \/ HelpReply
    \/ SendChatAction
    \/ GenerateContent
    \/ GenerateReturn
    \/ ReplyText
    \/ ExceptReply

\* The event loop runs the coroutine that is ready, and every outbound call
\* eventually returns or raises; nothing obliges the platform to deliver
\* another update.
Fairness == WF_vars(Progress)

FairSpec == Spec /\ Fairness

\* ================================================================ claims
Idx == 1 .. Len(updates)

Ops(i, op) == SelectSeq(trace[i], LAMBDA c : c.op = op)

Finished(i) == pc[i] \in {"returned", "raised"}

Tokens(body) == { body[k] : k \in 1 .. Len(body) }

\* Texts written out, independent of the operators of the model.
HasText(ev) == ev.text # <<>> /\ ev.text[1] # <<>>
IsStart(ev) == ev.text = << <<"/", "start">> >>
IsHelp(ev) == ev.text = << <<"/", "help">> >>
SlashText(ev) == HasText(ev) /\ Len(ev.text[1]) >= 2 /\ ev.text[1][1] = "/"
FreeText(ev) == HasText(ev) /\ ~SlashText(ev)
FixedApology ==
    <<"Sorry, I encountered an error while processing your request. Please try again later.">>

\* C1: every handled free-text message makes exactly one completion call
\* and sends exactly one reply, whatever the outcomes of its outbound calls.
C1_ExactlyOneCallOneReply ==
    \A i \in Idx :
        (FreeText(updates[i]) /\ pc[i] \in Final) =>
            /\ Len(Ops(i, "generate_content")) = 1
            /\ Len(Ops(i, "reply_text")) = 1

\* C2: when the completion call of a message fails (raises, or yields no
\* usable text), the apology is sent, the only body that can be delivered is
\* the fixed apology, no reply body carries an error cause, and the cause is
\* in the log.
CompletionFailed(i) ==
    /\ response[i] # <<>>
    /\ (response[i][1].kind # "text" \/ response[i][1].text = <<>>)

C2_ApologyOnFailure ==
    \A i \in Idx :
        (CompletionFailed(i) /\ Finished(i)) =>
            LET sends == Ops(i, "reply_text")
            IN /\ sends # <<>>
               /\ sends[Len(sends)].body = FixedApology
               /\ \A k \in 1 .. Len(sends) :
                    /\ Tokens(sends[k].body) \cap { log[n].cause : n \in 1 .. Len(log) } = {}
                    /\ sends[k].result = "ok" => sends[k].body = FixedApology
               /\ response[i][1].kind # "text" =>
                    \E n \in 1 .. Len(log) : log[n].cause = response[i][1].cause

C2_Witness ==
    \E i \in Idx :
        /\ CompletionFailed(i) /\ response[i][1].kind = "raise"
        /\ pc[i] = "returned"
        /\ trace[i][Len(trace[i])].op = "reply_text"
        /\ trace[i][Len(trace[i])].result = "ok"

\* C3: a /start or /help command makes no completion call and sends exactly
\* one reply to the originating chat; the body depends only on the command
\* and, for /start, on the sender's first name, which it contains.
C3_CommandsStatic ==
    \A i \in Idx :
        ((IsStart(updates[i]) \/ IsHelp(updates[i])) /\ pc[i] \in Final) =>
            /\ Len(trace[i]) = 1
            /\ trace[i][1].op = "reply_text"
            /\ trace[i][1].chat_id = updates[i].chat_id
            /\ response[i] = <<>>
            /\ IsStart(updates[i]) => updates[i].first_name \in Tokens(trace[i][1].body)
            /\ \A j \in Idx :
                 ( /\ pc[j] \in Final
                   /\ updates[j].text = updates[i].text
                   /\ (IsStart(updates[i]) => updates[j].first_name = updates[i].first_name) )
                 => trace[j][1].body = trace[i][1].body

C3_Witness ==
    \E i \in Idx :
        /\ IsStart(updates[i]) /\ updates[i].first_name = "Ada"
        /\ pc[i] = "returned"
        /\ "Ada" \in Tokens(trace[i][1].body)
        /\ "gemini" \notin contacted

\* C4: an event whose text is absent or empty causes no outbound call at all
\* (no typing indicator, no completion call, no reply), and no completion
\* call ever carries an empty prompt.
C4_NoTextNoAction ==
    /\ \A i \in Idx :
         ~HasText(updates[i]) =>
            /\ trace[i] = <<>>
            /\ response[i] = <<>>
            /\ pc[i] \in {"queued", "unhandled", "returned"}
    /\ \A i \in Idx : \A k \in 1 .. Len(trace[i]) :
         trace[i][k].op = "generate_content" => trace[i][k].prompt # <<>>

C4_Witness ==
    \E i, j \in Idx :
        /\ updates[i].text = <<>> /\ pc[i] \in Final
        /\ updates[j].text = << <<>> >> /\ pc[j] \in Final

\* C5: with the bot token or the API key missing or empty, the script never
\* gets past its configuration checks: the application is not built, polling
\* does not start, no external service is contacted, and the only way the
\* script ends is exit status 1.
SecretMissing(v) == v = <<>> \/ v = << <<>> >>

C5_MissingConfigExits ==
    (SecretMissing(TELEGRAM_BOT_TOKEN) \/ SecretMissing(GOOGLE_API_KEY)) =>
        /\ phase \in {"module_setup", "check_token", "check_key", "exited"}
        /\ SecretMissing(TELEGRAM_BOT_TOKEN) => phase # "check_key"
        /\ handlers = <<>>
        /\ contacted = {}
        /\ updates = <<>>
        /\ phase = "exited" <=> exit_code = <<1>>
        /\ exit_code \in {<<>>, <<1>>}

C5_Witness ==
    /\ ~SecretMissing(TELEGRAM_BOT_TOKEN)
    /\ GOOGLE_API_KEY = << <<>> >>
    /\ phase = "exited"
    /\ exit_code = <<1>>

\* C6: the prompt of every completion call is exactly the text of the
\* inbound message, and once the call has returned a text, the reply sent
\* at line 91 carries exactly that text to the originating chat; if that
\* send succeeds it is the only reply.
C6_Verbatim ==
    \A i \in Idx :
        /\ \A k \in 1 .. Len(trace[i]) :
             trace[i][k].op = "generate_content" => << trace[i][k].prompt >> = updates[i].text
        /\ (response[i] # <<>> /\ response[i][1].kind = "text" /\ pc[i] # "reply_text") =>
             LET sends == Ops(i, "reply_text")
             IN /\ sends # <<>>
                /\ sends[1].body = response[i][1].text
                /\ sends[1].chat_id = updates[i].chat_id
                /\ sends[1].result = "ok" => Len(sends) = 1

C6_Witness ==
    \E i \in Idx :
        /\ updates[i].text = << <<"hi">> >>
        /\ pc[i] = "returned"
        /\ Len(trace[i]) = 3
        /\ trace[i][2].prompt = <<"hi">>
        /\ trace[i][3].body = <<"Paris", " is the capital of France.">>
        /\ trace[i][3].result = "ok"

\* C7 (as stated): an event goes to a command handler only if it is /start
\* or /help; every other event with non-empty text, /foo included, is
\* handled as free text; only events without text are ignored.
Processed(i) == handler_of[i] # "pending"

C7_ThreeWay ==
    \A i \in Idx :
        Processed(i) =>
            /\ handler_of[i] \in {"start", "help"} => (IsStart(updates[i]) \/ IsHelp(updates[i]))
            /\ (HasText(updates[i]) /\ ~IsStart(updates[i]) /\ ~IsHelp(updates[i]))
                  => handler_of[i] = "message"
            /\ handler_of[i] = "none" => ~HasText(updates[i])

\* C7 (amended): an event goes to the start or help handler exactly when it
\* is that command; an event with non-empty text that is not a command goes
\* to handle_message; events without text and unrecognized commands such as
\* /foo are taken by no handler and cause no outbound call.
C7_Classification ==
    \A i \in Idx :
        Processed(i) =>
            /\ handler_of[i] = "start" <=> IsStart(updates[i])
            /\ handler_of[i] = "help" <=> IsHelp(updates[i])
            /\ handler_of[i] = "message" <=> FreeText(updates[i])
            /\ handler_of[i] = "none" <=>
                  (~HasText(updates[i])
                     \/ (SlashText(updates[i]) /\ ~IsStart(updates[i]) /\ ~IsHelp(updates[i])))
            /\ handler_of[i] = "none" => (trace[i] = <<>> /\ pc[i] = "unhandled")
            /\ handler_of[i] = "message" => pc[i] # "unhandled"

C7_Witness ==
    \E i, j \in Idx :
        /\ updates[i].text = << <<"/", "foo">> >>
        /\ handler_of[i] = "none" /\ pc[i] = "unhandled"
        /\ updates[j].text = << <<"start">> >>
        /\ handler_of[j] = "message"

\* C8: while a handler waits for the provider, a later update that is
\* already on the queue can be taken and handled before the call returns.
C8_IntakeNotBlocked ==
    (current # 0 /\ pc[current] = "await_generate" /\ update_queue # <<>>) =>
        ENABLED ProcessUpdate

\* C9: a failure while handling one update stays with that update: the
\* process keeps polling, the failed handler no longer occupies the
\* application, and every finished update, whatever happened to the others,
\* made exactly the calls that its own event and the outcomes of its own
\* calls determine.
ResultEnd(r) == IF r = "ok" THEN "returned" ELSE "raised"

ApologyTail(ev, tr, k, p) ==
    /\ Len(tr) = k
    /\ tr[k] = SendCall(ev, FixedApology, tr[k].result)
    /\ p = ResultEnd(tr[k].result)

OwnBehaviour(i) ==
    LET ev == updates[i]
        tr == trace[i]
        p  == pc[i]
    IN  IF IsStart(ev) THEN
            /\ Len(tr) = 1
            /\ tr[1] = SendCall(ev, WelcomeMessage(ev.first_name), tr[1].result)
            /\ p = ResultEnd(tr[1].result)
        ELSE IF IsHelp(ev) THEN
            /\ Len(tr) = 1
            /\ tr[1] = SendCall(ev, HelpMessage, tr[1].result)
            /\ p = ResultEnd(tr[1].result)
        ELSE IF ~FreeText(ev) THEN
            tr = <<>> /\ p = "unhandled"
        ELSE
            /\ Len(tr) >= 1
            /\ tr[1].op = "send_chat_action" /\ tr[1].chat_id = ev.chat_id
            /\ IF tr[1].result = "raise" THEN Len(tr) = 1 /\ p = "raised"
               ELSE IF ~model_defined THEN ApologyTail(ev, tr, 2, p)
               ELSE /\ Len(tr) >= 3
                    /\ tr[2] = [op |-> "generate_content", prompt |-> ev.text[1]]
                    /\ response[i] # <<>>
                    /\ IF response[i][1].kind # "text" THEN ApologyTail(ev, tr, 3, p)
                       ELSE /\ tr[3] = SendCall(ev, response[i][1].text, tr[3].result)
                            /\ IF tr[3].result = "ok" THEN Len(tr) = 3 /\ p = "returned"
                               ELSE ApologyTail(ev, tr, 4, p)

C9_ErrorsIsolated ==
    /\ updates # <<>> => (phase = "polling" /\ exit_code = <<>>)
    /\ current # 0 => (current \in Idx /\ pc[current] \notin Final \cup {"queued"})
    /\ \A i \in Idx : pc[i] \in Final => OwnBehaviour(i)

C9_Witness ==
    \E i, j \in Idx :
        /\ i < j
        /\ pc[i] = "raised"
        /\ FreeText(updates[j])
        /\ pc[j] = "returned" /\ Len(trace[j]) = 3

\* C10: when the typing indicator call of a free-text message fails, the
\* handler still makes the completion call and sends a reply.
C10_TypingBestEffort ==
    \A i \in Idx :
        ( /\ pc[i] \in Final
          /\ trace[i] # <<>>
          /\ trace[i][1].op = "send_chat_action"
          /\ trace[i][1].result = "raise" )
        => /\ Len(Ops(i, "generate_content")) = 1
           /\ Len(Ops(i, "reply_text")) >= 1

\* C11 (as stated): when the reply of line 91 fails after a successful
\* completion, the failure is logged and no further send is attempted for
\* that message.
CompletionSucceeded(i) ==
    /\ response[i] # <<>>
    /\ response[i][1].kind = "text"
    /\ response[i][1].text # <<>>

C11_DeliveryFailureDropped ==
    \A i \in Idx :
        LET sends == Ops(i, "reply_text")
        IN ( /\ CompletionSucceeded(i)
             /\ pc[i] \in Final
             /\ sends # <<>>
             /\ sends[1].result = "raise" )
           => /\ Len(sends) = 1
              /\ \E n \in 1 .. Len(log) : log[n].cause = "send"

\* C12: no update ever has more than one completion request, and a failed
\* provider call is not repeated: the handler is in the except branch or
\* has ended.
C12_AtMostOneRequest ==
    \A i \in Idx :
        /\ Len(Ops(i, "generate_content")) <= 1
        /\ response[i] # <<>> => Len(Ops(i, "generate_content")) = 1
        /\ (response[i] # <<>> /\ response[i][1].kind # "text") =>
              pc[i] \in {"except_reply", "returned", "raised"}

C12_Witness ==
    \E i \in Idx :
        /\ response[i] # <<>> /\ response[i][1].kind = "raise"
        /\ pc[i] \in Final
        /\ Len(Ops(i, "generate_content")) = 1

\* C13: what is done for an update depends only on that update and on the
\* outcomes of its own outbound calls.  Two updates with the same content
\* are taken by the same handler; as long as their earlier calls had the
\* same outcomes their next call is the same call (same operation, chat,
\* prompt or body); and with the same outcomes throughout they make the
\* same calls and end the same way, whatever was handled before them.
Request(c) == IF c.op = "generate_content" THEN c ELSE [c EXCEPT !.result = "-"]

SameOutcomesBefore(i, j, k) ==
    \A n \in 1 .. (k - 1) :
        /\ trace[i][n] = trace[j][n]
        /\ trace[i][n].op = "generate_content" => response[i] = response[j]

C13_Stateless ==
    \A i, j \in Idx :
        (updates[i] = updates[j] /\ Processed(i) /\ Processed(j)) =>
            /\ handler_of[i] = handler_of[j]
            /\ \A k \in 1 .. Len(trace[i]) :
                 (k <= Len(trace[j]) /\ SameOutcomesBefore(i, j, k)) =>
                     Request(trace[i][k]) = Request(trace[j][k])
            /\ (pc[i] \in Final /\ pc[j] \in Final /\ Len(trace[i]) <= Len(trace[j])
                  /\ SameOutcomesBefore(i, j, Len(trace[i]) + 1)) =>
                     (trace[i] = trace[j] /\ pc[i] = pc[j])

C13_Witness ==
    \E i, j \in Idx :
        /\ i < j
        /\ updates[i] = updates[j] /\ FreeText(updates[i])
        /\ pc[i] = "returned" /\ pc[j] = "returned"
        /\ Len(trace[i]) = 3
        /\ trace[i] = trace[j]

\* Stages of the per-update state machine, read off the handler position.
Classified == {"start_reply", "help_reply", "send_chat_action"}
CompletionRequested == {"generate_content", "await_generate"}
Replying == {"reply_text", "except_reply"}

AppendsReply(i) ==
    /\ Len(trace'[i]) = Len(trace[i]) + 1
    /\ trace'[i][Len(trace'[i])].op = "reply_text"

StageStep(i) ==
    LET a == pc[i]
        b == pc'[i]
    IN /\ a # b =>
            \/ a = "queued" /\ b \in Classified
            \/ a = "queued" /\ b = "unhandled" /\ handler_of'[i] = "none"
            \/ a \in {"start_reply", "help_reply"} /\ b \in {"returned", "raised"} /\ AppendsReply(i)
            \/ a = "send_chat_action" /\ b = "generate_content"
            \/ /\ a = "send_chat_action" /\ b = "raised"
               /\ trace'[i][Len(trace'[i])].op = "send_chat_action"
               /\ trace'[i][Len(trace'[i])].result = "raise"
            \/ a = "generate_content" /\ b = "await_generate"
            \/ a \in CompletionRequested /\ b \in Replying
            \/ a = "reply_text" /\ b = "except_reply" /\ AppendsReply(i)
            \/ a \in Replying /\ b \in {"returned", "raised"} /\ AppendsReply(i)
       /\ (FreeText(updates[i]) /\ AppendsReply(i)) => a \in Replying

SetupFailed == phase # "module_setup" /\ ~model_defined

C16_SetupFailureApology ==
    SetupFailed =>
        /\ \E n \in 1 .. Len(log) : log[n].cause = "setup"
        /\ (~SecretMissing(TELEGRAM_BOT_TOKEN) /\ ~SecretMissing(GOOGLE_API_KEY))
              => phase # "exited"
        /\ "gemini" \notin contacted
        /\ \A i \in Idx :
             (FreeText(updates[i]) /\ pc[i] \in Final) =>
                /\ Ops(i, "generate_content") = <<>>
                /\ Len(Ops(i, "reply_text")) = 1
                /\ Ops(i, "reply_text")[1].body = FixedApology

\* C17: a free-text message has at most two text sends; two only when the
\* first, the completion reply, raised and the second is the apology; at
\* most one send succeeds and a successful send is the last; nothing is
\* sent after the apology, and when the apology send raises the handler
\* ends with that exception.
C17_AtMostTwoSends ==
    \A i \in Idx :
        FreeText(updates[i]) =>
            LET sends == Ops(i, "reply_text")
            IN /\ Len(sends) <= 2
               /\ Cardinality({ k \in 1 .. Len(sends) : sends[k].result = "ok" }) <= 1
               /\ Len(sends) = 2 =>
                     /\ sends[1].result = "raise"
                     /\ response[i] # <<>> /\ sends[1].body = response[i][1].text
                     /\ sends[2].body = FixedApology
               /\ \A k \in 1 .. Len(sends) :
                     /\ sends[k].body = FixedApology =>
                           (k = Len(sends) /\ trace[i][Len(trace[i])] = sends[k])
                     /\ sends[k].result = "ok" => (k = Len(sends) /\ pc[i] = "returned")
                     /\ (sends[k].body = FixedApology /\ sends[k].result = "raise") =>
                           pc[i] = "raised"

C17_Witness ==
    \E i \in Idx :
        /\ FreeText(updates[i])
        /\ Len(Ops(i, "reply_text")) = 2
        /\ Ops(i, "reply_text")[2].result = "raise"
        /\ pc[i] = "raised"

====
